---------------------------- MODULE Spec2Model ----------------------------
(***************************************************************************)
(* A model of the DailyIPTV aggregation pipeline:                          *)
(*   scripts/update_sources.py      IPTVUpdater (class) and the second     *)
(*                                  revision of its methods that follows   *)
(*                                  the class in the same file             *)
(*   scripts/update_vod_sources.py  VODUpdater                             *)
(*                                                                         *)
(* Text is modelled at character level: a Python str is a sequence of      *)
(* one-character strings.  A character outside ASCII is written by its     *)
(* code point ("U592E").  A document (the body of a response, the content  *)
(* of a generated file) is the sequence of its lines, i.e. the value of    *)
(* str.splitlines(); the empty document "" is the empty sequence.          *)
(***************************************************************************)
EXTENDS Integers, Sequences, FiniteSets, TLC

VARIABLES
    \* ---- one run of an updater (Spec)
    variant,            \* "live": IPTVUpdater.run, "live2": run (second revision), "vod": VODUpdater.run
    sources,            \* sources_config['sources'] / vod_sources
    backup_sources,     \* sources_config['backup_sources']
    pc,                 \* position of run()
    idx,                \* index of the next source of the running fetch loop
    all_channels,       \* all_channels / all_vod_items
    successful_sources, \* successful_sources
    netlog,             \* history: every fetch request and every time.sleep(1), in order
    unique_channels_list, \* unique_channels_list / unique_vod_list
    quality_channels,   \* quality_channels
    pending,            \* futures submitted to the executor and not yet collected
    futures,            \* the task of each submitted future: its state and its result
    valid_channels,     \* valid_channels
    validation_results, \* validation_results
    categorized,        \* categorized_channels / vod_categorized
    files,              \* names of the files written below outputs/
    stats,              \* <<>> until the statistics record is built, then <<record>>
    \* ---- the playlist parser and renderer on their own (SpecParse)
    p_pc, p_variant, p_lines, p_channels, p_rendered, p_reparsed,
    \* ---- the classifier on its own (SpecClassify)
    c_pc, c_domain, c_name, c_group, c_category,
    \* ---- the reachability probe on its own (SpecProbe)
    q_pc,               \* "call" before the call of is_url_accessible, "done" after it
    q_rev,              \* "v1": IPTVUpdater.is_url_accessible, "v2": the second revision
    q_url,              \* the url probed
    q_head, q_get,      \* what the network answered to the HEAD and to the GET request
    q_result            \* <<>> until the call returns, then <<[valid, message, requests]>>

vars_run ==
    <<variant, sources, backup_sources, pc, idx, all_channels, successful_sources,
      netlog, unique_channels_list, quality_channels, pending, futures, valid_channels,
      validation_results, categorized, files, stats>>

vars_parse ==
    <<p_pc, p_variant, p_lines, p_channels, p_rendered, p_reparsed>>

vars_cls ==
    <<c_pc, c_domain, c_name, c_group, c_category>>

vars_probe ==
    <<q_pc, q_rev, q_url, q_head, q_get, q_result>>

vars ==
    <<vars_run, vars_parse, vars_cls, vars_probe>>

-----------------------------------------------------------------------------
(* Bounds of the model.                                                    *)

\* longest playlist text, in lines, given to the parser in SpecParse
MaxLines == 4

\* most primary sources of a configuration
MaxPrimary == 2

\* most backup sources of a configuration
MaxBackup == 1

\* most fragments concatenated into a name given to the classifier
MaxParts == 2

\* most entries of the playlist whose probe stage is followed (SpecValidate)
MaxChannels == 2

-----------------------------------------------------------------------------
(* Python str operations.                                                  *)

Range(s) ==
    {s[i] : i \in DOMAIN s}

\* the characters str.strip() removes, among those of the model's texts
Whitespace ==
    {" ", "\t"}

UpperChars ==
    <<"A", "B", "C", "D", "E", "F", "G", "H", "I", "J", "K", "L", "M",
      "N", "O", "P", "Q", "R", "S", "T", "U", "V", "W", "X", "Y", "Z">>

LowerChars ==
    <<"a", "b", "c", "d", "e", "f", "g", "h", "i", "j", "k", "l", "m",
      "n", "o", "p", "q", "r", "s", "t", "u", "v", "w", "x", "y", "z">>

Digits ==
    <<"0", "1", "2", "3", "4", "5", "6", "7", "8", "9">>

\* str.lower() of one character
LowerChar(c) ==
    IF \E k \in DOMAIN UpperChars : UpperChars[k] = c
    THEN LowerChars[CHOOSE k \in DOMAIN UpperChars : UpperChars[k] = c]
    ELSE c

\* str.upper() of one character
UpperChar(c) ==
    IF \E k \in DOMAIN LowerChars : LowerChars[k] = c
    THEN UpperChars[CHOOSE k \in DOMAIN LowerChars : LowerChars[k] = c]
    ELSE c

\* s.lower()
lower(s) ==
    [i \in DOMAIN s |-> LowerChar(s[i])]

\* s.upper()
upper(s) ==
    [i \in DOMAIN s |-> UpperChar(s[i])]

\* s.startswith(prefix)
startswith(s, prefix) ==
    /\ Len(prefix) <= Len(s)
    /\ SubSeq(s, 1, Len(prefix)) = prefix

\* keyword in s
contains(s, keyword) ==
    \E i \in 1..(Len(s) + 1) :
        /\ i + Len(keyword) - 1 <= Len(s)
        /\ SubSeq(s, i, i + Len(keyword) - 1) = keyword

\* s.find(sub) + 1: the 1-based place of the first occurrence, 0 when there is none
find(s, sub) ==
    IF contains(s, sub)
    THEN CHOOSE i \in 1..(Len(s) + 1) :
            /\ i + Len(sub) - 1 <= Len(s)
            /\ SubSeq(s, i, i + Len(sub) - 1) = sub
            /\ \A j \in 1..(i - 1) : SubSeq(s, j, j + Len(sub) - 1) # sub
    ELSE 0

\* s.strip()
strip(s) ==
    IF \A i \in DOMAIN s : s[i] \in Whitespace
    THEN <<>>
    ELSE LET first == CHOOSE i \in DOMAIN s :
                          /\ s[i] \notin Whitespace
                          /\ \A j \in 1..(i - 1) : s[j] \in Whitespace
             last  == CHOOSE i \in DOMAIN s :
                          /\ s[i] \notin Whitespace
                          /\ \A j \in (i + 1)..Len(s) : s[j] \in Whitespace
         IN  SubSeq(s, first, last)

RECURSIVE DecStr(_)
\* str(n) of a natural number, as the f-strings format it
DecStr(n) ==
    IF n < 10
    THEN <<Digits[n + 1]>>
    ELSE DecStr(n \div 10) \o <<Digits[(n % 10) + 1]>>

-----------------------------------------------------------------------------
(* The playlist parser.                                                    *)

EXTINF ==
    <<"#", "E", "X", "T", "I", "N", "F">>

\* the schemes of a URI line
UriSchemes ==
    { <<"h", "t", "t", "p", ":", "/", "/">>,
      <<"h", "t", "t", "p", "s", ":", "/", "/">>,
      <<"r", "t", "s", "p", ":", "/", "/">>,
      <<"r", "t", "m", "p", ":", "/", "/">> }

is_uri_line(line) ==
    \E scheme \in UriSchemes : startswith(line, scheme)

\* re.search(r',(?P<name>.*)$', line): <<>> when there is no match, else
\* <<group('name')>>, the text after the first comma of the line
name_match(line) ==
    IF find(line, <<",">>) = 0
    THEN <<>>
    ELSE << SubSeq(line, find(line, <<",">>) + 1, Len(line)) >>

\* re.search(key + r'="([^"]*)"', line): <<>> when there is no match, else
\* <<group(1)>>.  key_eq_quote is the literal text  key="
attr_match(line, key_eq_quote) ==
    LET p    == find(line, key_eq_quote)
        rest == SubSeq(line, p + Len(key_eq_quote), Len(line))
    IN  IF p = 0 \/ find(rest, <<"\"">>) = 0
        THEN <<>>
        ELSE << SubSeq(rest, 1, find(rest, <<"\"">>) - 1) >>

GroupTitleKey ==
    <<"g", "r", "o", "u", "p", "-", "t", "i", "t", "l", "e", "=", "\"">>

TvgLogoKey ==
    <<"t", "v", "g", "-", "l", "o", "g", "o", "=", "\"">>

\* the group of an item whose metadata line names none
UnknownGroup ==
    <<"U672A", "U77E5", "U5206", "U7C7B">>

\* the name given to a channel whose metadata line holds no comma; i is the
\* 0-based index of the line in the document
UnknownName(i) ==
    <<"U", "n", "k", "n", "o", "w", "n", "_">> \o DecStr(i)

VodUnknownName(i) ==
    <<"V", "O", "D", "_", "U", "n", "k", "n", "o", "w", "n", "_">> \o DecStr(i)

\* the name of the channel a metadata line starts (IPTVUpdater.parse_m3u)
extracted_name(line, i) ==
    IF name_match(line) # <<>>
    THEN strip(name_match(line)[1])
    ELSE UnknownName(i)

\* the name of the item a metadata line starts (VODUpdater.parse_m3u)
extracted_vod_name(line, i) ==
    IF name_match(line) # <<>>
    THEN strip(name_match(line)[1])
    ELSE VodUnknownName(i)

\* current_channel after a metadata line; a dict is modelled as <<>> ({}) or
\* <<record>>
new_channel(line, i) ==
    << [raw_extinf |-> line, name |-> extracted_name(line, i)] >>

\* current_item after a metadata line; the optional key 'logo' is has_logo
\* and logo
new_vod_item(line, i, source_url) ==
    << [raw_extinf |-> line,
        type       |-> <<"v", "o", "d">>,
        source     |-> source_url,
        name       |-> extracted_vod_name(line, i),
        group      |-> IF attr_match(line, GroupTitleKey) # <<>>
                       THEN attr_match(line, GroupTitleKey)[1]
                       ELSE UnknownGroup,
        has_logo   |-> attr_match(line, TvgLogoKey) # <<>>,
        logo       |-> IF attr_match(line, TvgLogoKey) # <<>>
                       THEN attr_match(line, TvgLogoKey)[1]
                       ELSE <<>>] >>

\* parse_line with the pending metadata kept after an entry is emitted
parse_line_keeping_pending(st, raw, i, source_url) ==
    LET line == strip(raw)
    IN  IF line = <<>>
        THEN st
        ELSE IF startswith(line, EXTINF)
        THEN [st EXCEPT !.current_channel = new_channel(line, i)]
        ELSE IF is_uri_line(line) /\ st.current_channel # <<>>
        THEN [st EXCEPT !.channels = Append(st.channels,
                  [raw_extinf |-> st.current_channel[1].raw_extinf,
                   name       |-> st.current_channel[1].name,
                   url        |-> line,
                   source     |-> source_url])]
        ELSE st

\* one iteration of the loop of IPTVUpdater.parse_m3u, on the line of 0-based
\* index i; st is [current_channel, channels]
parse_line(st, raw, i, source_url) ==
    LET line == strip(raw)
    IN  IF line = <<>>
        THEN st
        ELSE IF startswith(line, EXTINF)
        THEN [st EXCEPT !.current_channel = new_channel(line, i)]
        ELSE IF is_uri_line(line) /\ st.current_channel # <<>>
        THEN [current_channel |-> <<>>,
              channels |-> Append(st.channels,
                  [raw_extinf |-> st.current_channel[1].raw_extinf,
                   name       |-> st.current_channel[1].name,
                   url        |-> line,
                   source     |-> source_url])]
        ELSE st

\* one iteration of the loop of VODUpdater.parse_m3u
parse_vod_line(st, raw, i, source_url) ==
    LET line == strip(raw)
    IN  IF line = <<>>
        THEN st
        ELSE IF startswith(line, EXTINF)
        THEN [st EXCEPT !.current_channel = new_vod_item(line, i, source_url)]
        ELSE IF is_uri_line(line) /\ st.current_channel # <<>>
        THEN [current_channel |-> <<>>,
              channels |-> Append(st.channels,
                  [raw_extinf |-> st.current_channel[1].raw_extinf,
                   type       |-> st.current_channel[1].type,
                   source     |-> st.current_channel[1].source,
                   name       |-> st.current_channel[1].name,
                   group      |-> st.current_channel[1].group,
                   has_logo   |-> st.current_channel[1].has_logo,
                   logo       |-> st.current_channel[1].logo,
                   url        |-> line])]
        ELSE st

RECURSIVE parse_loop(_, _, _, _)
\* the state of the loop of IPTVUpdater.parse_m3u after the first n lines
parse_loop(lines, n, source_url, vod) ==
    IF n = 0
    THEN [current_channel |-> <<>>, channels |-> <<>>]
    ELSE IF vod
    THEN parse_vod_line(parse_loop(lines, n - 1, source_url, vod), lines[n], n - 1, source_url)
    ELSE parse_line(parse_loop(lines, n - 1, source_url, vod), lines[n], n - 1, source_url)

\* IPTVUpdater.parse_m3u(content, source_url), content given by its lines
parse_m3u(lines, source_url) ==
    parse_loop(lines, Len(lines), source_url, FALSE).channels

\* VODUpdater.parse_m3u(content, source_url)
parse_m3u_vod(lines, source_url) ==
    parse_loop(lines, Len(lines), source_url, TRUE).channels

-----------------------------------------------------------------------------
(* The classifiers.                                                        *)

\* any(keyword in s for keyword in keywords)
any_keyword_in(keywords, s) ==
    \E k \in DOMAIN keywords : contains(s, keywords[k])

cctv_keywords ==
    << <<"c", "c", "t", "v">>,
       <<"U592E", "U89C6">>,
       <<"U4E2D", "U592E">> >>

satellite_keywords ==
    << <<"U536B", "U89C6">>,
       <<"t", "v", "b">>,
       <<"U51E4", "U51F0">>,
       <<"U661F", "U7A7A">>,
       <<"U6E56", "U5357">>,
       <<"U6D59", "U6C5F">>,
       <<"U6C5F", "U82CF">>,
       <<"U4E1C", "U65B9">>,
       <<"U5317", "U4EAC">> >>

local_keywords ==
    << <<"U90FD", "U5E02">>,
       <<"U65B0", "U95FB">>,
       <<"U6C11", "U751F">>,
       <<"U516C", "U5171">>,
       <<"U6559", "U80B2">>,
       <<"U5C11", "U513F">>,
       <<"U4F53", "U80B2">>,
       <<"U5F71", "U89C6">>,
       <<"U7EFC", "U827A">> >>

international_keywords ==
    << <<"b", "b", "c">>,
       <<"c", "n", "n">>,
       <<"n", "h", "k">>,
       <<"f", "o", "x">>,
       <<"h", "b", "o">>,
       <<"d", "i", "s", "n", "e", "y">>,
       <<"d", "i", "s", "c", "o", "v", "e", "r", "y">>,
       <<"U56FD", "U5BB6", "U5730", "U7406">> >>

\* the keys of categorized_channels, in the order the dict literal gives them
LiveCategories ==
    <<"cctv", "satellite", "local", "international", "other">>

\* categorize_channel with the satellite test ahead of the cctv test
categorize_channel_satellite_first(channel_name) ==
    LET name_lower == lower(channel_name)
    IN  IF any_keyword_in(satellite_keywords, name_lower) THEN "satellite"
        ELSE IF any_keyword_in(cctv_keywords, name_lower) THEN "cctv"
        ELSE IF any_keyword_in(local_keywords, name_lower) THEN "local"
        ELSE IF any_keyword_in(international_keywords, name_lower) THEN "international"
        ELSE "other"

\* IPTVUpdater.categorize_channel(channel_name)
categorize_channel(channel_name) ==
    LET name_lower == lower(channel_name)
    IN  IF any_keyword_in(cctv_keywords, name_lower) THEN "cctv"
        ELSE IF any_keyword_in(satellite_keywords, name_lower) THEN "satellite"
        ELSE IF any_keyword_in(local_keywords, name_lower) THEN "local"
        ELSE IF any_keyword_in(international_keywords, name_lower) THEN "international"
        ELSE "other"

movie_keywords ==
    << <<"U7535", "U5F71">>,
       <<"m", "o", "v", "i", "e">>,
       <<"U5F71", "U9662">>,
       <<"U5267", "U573A">>,
       <<"U5927", "U7247">>,
       <<"f", "i", "l", "m">>,
       <<"c", "i", "n", "e", "m", "a">> >>

tv_keywords ==
    << <<"U7535", "U89C6", "U5267">>,
       <<"t", "v">>,
       <<"U5267", "U96C6">>,
       <<"U8FDE", "U7EED", "U5267">>,
       <<"U7F8E", "U5267">>,
       <<"U97E9", "U5267">>,
       <<"U65E5", "U5267">>,
       <<"d", "r", "a", "m", "a">>,
       <<"s", "e", "r", "i", "e", "s">> >>

variety_keywords ==
    << <<"U7EFC", "U827A">>,
       <<"U5A31", "U4E50">>,
       <<"U771F", "U4EBA", "U79C0">>,
       <<"U9009", "U79C0">>,
       <<"U8131", "U53E3", "U79C0">>,
       <<"v", "a", "r", "i", "e", "t", "y">>,
       <<"s", "h", "o", "w">> >>

anime_keywords ==
    << <<"U52A8", "U6F2B">>,
       <<"U52A8", "U753B">>,
       <<"U5361", "U901A">>,
       <<"a", "n", "i", "m", "e">>,
       <<"c", "a", "r", "t", "o", "o", "n">>,
       <<"U52A8", "U6F2B">> >>

documentary_keywords ==
    << <<"U7EAA", "U5F55", "U7247">>,
       <<"U7EAA", "U5B9E">>,
       <<"d", "o", "c", "u", "m", "e", "n", "t", "a", "r", "y">>,
       <<"d", "o", "c", "u">> >>

\* the keys of vod_categorized, in the order the dict literal gives them
VodCategories ==
    <<"movie", "tv", "variety", "anime", "documentary", "other">>

\* VODUpdater.categorize_vod(vod_name, vod_group); vod_group None is <<>>,
\* which (vod_group or '') turns into the empty string as well
categorize_vod(vod_name, vod_group) ==
    LET name_lower  == lower(vod_name)
        group_lower == lower(vod_group)
    IN  IF any_keyword_in(movie_keywords, name_lower) \/ any_keyword_in(movie_keywords, group_lower)
        THEN "movie"
        ELSE IF any_keyword_in(tv_keywords, name_lower) \/ any_keyword_in(tv_keywords, group_lower)
        THEN "tv"
        ELSE IF any_keyword_in(variety_keywords, name_lower) \/ any_keyword_in(variety_keywords, group_lower)
        THEN "variety"
        ELSE IF any_keyword_in(anime_keywords, name_lower) \/ any_keyword_in(anime_keywords, group_lower)
        THEN "anime"
        ELSE IF any_keyword_in(documentary_keywords, name_lower) \/ any_keyword_in(documentary_keywords, group_lower)
        THEN "documentary"
        ELSE "other"

-----------------------------------------------------------------------------
(* The playlist renderer.                                                  *)

\* datetime.now().strftime('%Y-%m-%d %H:%M:%S'): some instant
Timestamp ==
    <<"2", "0", "2", "6", "-", "0", "1", "-", "0", "1", " ", "0", "0", ":", "0", "0", ":", "0", "0">>

HeaderFormat ==
    <<"#", "E", "X", "T", "M", "3", "U">>

HeaderEncoding ==
    <<"#", "E", "X", "T", "E", "N", "C", ":", " ", "U", "T", "F", "-", "8">>

HeaderGenerated ==
    <<"#", " ", "G", "e", "n", "e", "r", "a", "t", "e", "d", ":", " ">> \o Timestamp \o <<" ", "U", "T", "C">>

HeaderUpdated ==
    <<"#", " ", "U", "p", "d", "a", "t", "e", "d", ":", " ">> \o Timestamp

HeaderDisclaimer ==
    <<"#", " ", "F", "o", "r", " ", "p", "e", "r", "s", "o", "n", "a", "l", " ",
      "t", "e", "s", "t", "i", "n", "g", " ", "a", "n", "d", " ",
      "r", "e", "s", "e", "a", "r", "c", "h", " ",
      "p", "u", "r", "p", "o", "s", "e", "s", " ", "o", "n", "l", "y", ".">>

\* "# Type: " and the two characters of "on demand"
HeaderVodType ==
    <<"#", " ", "T", "y", "p", "e", ":", " ", "U70B9", "U64AD">>

RECURSIVE entry_lines_joined(_, _)
\* entry_lines with the line break between the metadata line and the URL
\* line left out
entry_lines_joined(channels, n) ==
    IF n = 0
    THEN <<>>
    ELSE entry_lines_joined(channels, n - 1) \o <<channels[n].raw_extinf \o channels[n].url>>

RECURSIVE entry_lines(_, _)
\* the loop  content += f"{channel['raw_extinf']}\n{channel['url']}\n"  over
\* the first n channels
entry_lines(channels, n) ==
    IF n = 0
    THEN <<>>
    ELSE entry_lines(channels, n - 1) \o <<channels[n].raw_extinf, channels[n].url>>

\* IPTVUpdater.generate_m3u_content(channels, title), by the lines of the
\* text it returns
generate_m3u_content(channels, title) ==
    << HeaderFormat,
       HeaderEncoding,
       HeaderGenerated,
       HeaderUpdated,
       <<"#", " ", "T", "i", "t", "l", "e", ":", " ">> \o title,
       <<"#", " ", "T", "o", "t", "a", "l", " ", "C", "h", "a", "n", "n", "e", "l", "s", ":", " ">>
           \o DecStr(Len(channels)),
       HeaderDisclaimer,
       <<>> >>
    \o entry_lines(channels, Len(channels))

\* VODUpdater.generate_m3u_content(items, category); category None is <<>>
generate_m3u_content_vod(items, category) ==
    << HeaderFormat, HeaderEncoding, HeaderGenerated, HeaderUpdated, HeaderVodType >>
    \o (IF category # <<>>
        THEN << <<"#", " ", "C", "a", "t", "e", "g", "o", "r", "y", ":", " ">> \o upper(category) >>
        ELSE <<>>)
    \o << <<"#", " ", "T", "o", "t", "a", "l", " ", "I", "t", "e", "m", "s", ":", " ">>
              \o DecStr(Len(items)),
          HeaderDisclaimer,
          <<>> >>
    \o entry_lines(items, Len(items))

\* the title run() gives the raw playlist ("original live sources (unverified)")
RawTitle ==
    <<"U539F", "U59CB", "U76F4", "U64AD", "U6E90", "UFF08", "U672A", "U9A8C", "U8BC1", "UFF09">>

\* the title run() gives the validated playlist ("verified live sources")
ValidatedTitle ==
    <<"U5DF2", "U9A8C", "U8BC1", "U76F4", "U64AD", "U6E90">>

-----------------------------------------------------------------------------
(* The reachability probe.                                                 *)

\* the characters urlsplit accepts in a scheme
SchemeChars ==
    Range(LowerChars) \cup Range(UpperChars) \cup Range(Digits) \cup {"+", "-", "."}

\* the place of the colon that ends the scheme of url, 0 when urlsplit finds
\* no scheme
scheme_end(url) ==
    LET p == find(url, <<":">>)
    IN  IF /\ p > 1
           /\ url[1] \in Range(LowerChars) \cup Range(UpperChars)
           /\ \A k \in 1..(p - 1) : url[k] \in SchemeChars
        THEN p
        ELSE 0

\* urlparse(url).scheme
url_scheme(url) ==
    IF scheme_end(url) = 0 THEN <<>> ELSE lower(SubSeq(url, 1, scheme_end(url) - 1))

\* urlparse(url).netloc: what follows "//" up to the first of / ? #
url_netloc(url) ==
    LET rest == SubSeq(url, scheme_end(url) + 1, Len(url))
        stop == { k \in 3..Len(rest) : rest[k] \in {"/", "?", "#"} }
        last == IF stop = {}
                THEN Len(rest)
                ELSE (CHOOSE k \in stop : \A j \in stop : k <= j) - 1
    IN  IF startswith(rest, <<"/", "/">>) THEN SubSeq(rest, 3, last) ELSE <<>>

YoutubeCom ==
    <<"y", "o", "u", "t", "u", "b", "e", ".", "c", "o", "m">>

YoutuBe ==
    <<"y", "o", "u", "t", "u", ".", "b", "e">>

TwitchTv ==
    <<"t", "w", "i", "t", "c", "h", ".", "t", "v">>

\* the status codes is_url_accessible takes for reachable
AcceptedStatus ==
    {200, 302, 301}

\* what the network does with a request: the status code of the final
\* response, or the exception the requests library raises
NoAnswer ==
    [raised |-> "none", status_code |-> 0]

StatusAnswers ==
    { [raised |-> "none", status_code |-> c] : c \in {200, 301, 302, 404, 405} }

RaisedAnswers ==
    { [raised |-> x, status_code |-> 0] :
        x \in {"Timeout", "ConnectionError", "RequestException", "Exception"} }

Answers ==
    StatusAnswers \cup RaisedAnswers

\* the message of the result of is_url_accessible on an answered HEAD
head_message(head) ==
    CASE head.raised = "none"             -> <<"status", head.status_code>>
      [] head.raised = "Timeout"          -> <<"timeout">>
      [] head.raised = "ConnectionError"  -> <<"connection error">>
      [] head.raised = "RequestException" -> <<"request exception">>
      [] OTHER                            -> <<"unknown error">>

\* IPTVUpdater.is_url_accessible(channel) with url = channel['url'], head the
\* answer of the network to the HEAD request if one is sent: the pair
\* (valid, message) it returns and the requests it sent
is_url_accessible(url, head) ==
    IF url_scheme(url) = <<>> \/ url_netloc(url) = <<>>
    THEN [valid |-> FALSE, message |-> <<"invalid url format">>, requests |-> <<>>]
    ELSE IF contains(url, YoutubeCom) \/ contains(url, YoutuBe)
    THEN [valid |-> TRUE, message |-> <<"youtube skipped">>, requests |-> <<>>]
    ELSE IF contains(url, TwitchTv)
    THEN [valid |-> TRUE, message |-> <<"twitch skipped">>, requests |-> <<>>]
    ELSE [valid    |-> head.raised = "none" /\ head.status_code \in AcceptedStatus,
          message  |-> head_message(head),
          requests |-> <<"HEAD">>]

\* is_url_accessible(url) of the second revision, get the answer of the
\* network to the GET request if one is sent: the truth value it returns and
\* the requests it sent
is_url_accessible_v2(url, head, get) ==
    IF head.raised = "none"
    THEN [valid    |-> head.status_code \in AcceptedStatus,
          message  |-> <<>>,
          requests |-> <<"HEAD">>]
    ELSE [valid    |-> get.raised = "none" /\ get.status_code = 200,
          message  |-> <<>>,
          requests |-> <<"HEAD", "GET">>]

-----------------------------------------------------------------------------
(* SpecParse: parse a playlist text, render the entries, parse the         *)
(* rendered text again.                                                    *)

\* the lines the texts given to the parser are made of
SampleLines ==
    { \* #EXTINF:-1 group-title="News",CCTV-1
      <<"#", "E", "X", "T", "I", "N", "F", ":", "-", "1", " ",
        "g", "r", "o", "u", "p", "-", "t", "i", "t", "l", "e", "=", "\"", "N", "e", "w", "s", "\"",
        ",", "C", "C", "T", "V", "-", "1">>,
      \* #EXTINF:-1            (no comma)
      <<"#", "E", "X", "T", "I", "N", "F", ":", "-", "1">>,
      \* #EXTINF:-1,           (a comma and nothing after it)
      <<"#", "E", "X", "T", "I", "N", "F", ":", "-", "1", ",">>,
      \* " #EXTINF:0 tvg-logo="l.png", Movie A "   (blanks around the line and the name)
      <<" ", "#", "E", "X", "T", "I", "N", "F", ":", "0", " ",
        "t", "v", "g", "-", "l", "o", "g", "o", "=", "\"", "l", ".", "p", "n", "g", "\"",
        ",", " ", "M", "o", "v", "i", "e", " ", "A", " ">>,
      \* http://a.test/1
      <<"h", "t", "t", "p", ":", "/", "/", "a", ".", "t", "e", "s", "t", "/", "1">>,
      \* an empty line
      <<>> }

\* the texts of at most n lines
Texts(n) ==
    UNION { [1..k -> SampleLines] : k \in 0..n }

\* the source the parsed text is said to come from: https://src.test/a.m3u
SampleSource ==
    <<"h", "t", "t", "p", "s", ":", "/", "/", "s", "r", "c", ".", "t", "e", "s", "t", "/",
      "a", ".", "m", "3", "u">>

IdleRun ==
    /\ variant = "none"
    /\ sources = <<>>
    /\ backup_sources = <<>>
    /\ pc = "idle"
    /\ idx = 0
    /\ all_channels = <<>>
    /\ successful_sources = 0
    /\ netlog = <<>>
    /\ unique_channels_list = <<>>
    /\ quality_channels = <<>>
    /\ pending = {}
    /\ futures = <<>>
    /\ valid_channels = <<>>
    /\ validation_results = <<>>
    /\ categorized = <<>>
    /\ files = {}
    /\ stats = <<>>

IdleParse ==
    /\ p_pc = "idle"
    /\ p_variant = "none"
    /\ p_lines = <<>>
    /\ p_channels = <<>>
    /\ p_rendered = <<>>
    /\ p_reparsed = <<>>

IdleCls ==
    /\ c_pc = "idle"
    /\ c_domain = "none"
    /\ c_name = <<>>
    /\ c_group = <<>>
    /\ c_category = "none"

IdleProbe ==
    /\ q_pc = "idle"
    /\ q_rev = "none"
    /\ q_url = <<>>
    /\ q_head = NoAnswer
    /\ q_get = NoAnswer
    /\ q_result = <<>>

InitParse ==
    /\ IdleRun
    /\ IdleCls
    /\ IdleProbe
    /\ p_pc = "text"
    /\ p_variant \in {"live", "vod"}
    /\ p_lines \in Texts(MaxLines)
    /\ p_channels = <<>>
    /\ p_rendered = <<>>
    /\ p_reparsed = <<>>

\* channels = parse_m3u(content, source_url)
ParseText ==
    /\ p_pc = "text"
    /\ p_channels' = IF p_variant = "vod"
                     THEN parse_m3u_vod(p_lines, SampleSource)
                     ELSE parse_m3u(p_lines, SampleSource)
    /\ p_pc' = "parsed"
    /\ UNCHANGED <<p_variant, p_lines, p_rendered, p_reparsed, vars_run, vars_cls, vars_probe>>

\* content = generate_m3u_content(channels, ...)
RenderParsed ==
    /\ p_pc = "parsed"
    /\ \/ /\ p_variant = "live"
          /\ \E title \in {RawTitle, ValidatedTitle} :
                p_rendered' = generate_m3u_content(p_channels, title)
       \/ /\ p_variant = "vod"
          /\ \E category \in {<<>>, <<"m", "o", "v", "i", "e">>} :
                p_rendered' = generate_m3u_content_vod(p_channels, category)
    /\ p_pc' = "rendered"
    /\ UNCHANGED <<p_variant, p_lines, p_channels, p_reparsed, vars_run, vars_cls, vars_probe>>

\* parse_m3u(content, source_url) of the rendered text
ParseRendered ==
    /\ p_pc = "rendered"
    /\ p_reparsed' = IF p_variant = "vod"
                     THEN parse_m3u_vod(p_rendered, SampleSource)
                     ELSE parse_m3u(p_rendered, SampleSource)
    /\ p_pc' = "reparsed"
    /\ UNCHANGED <<p_variant, p_lines, p_channels, p_rendered, vars_run, vars_cls, vars_probe>>

NextParse ==
    \/ ParseText
    \/ RenderParsed
    \/ ParseRendered

SpecParse ==
    InitParse /\ [][NextParse]_vars

-----------------------------------------------------------------------------
(* SpecClassify: classify a name (and, on demand, a group).                *)

\* the pieces the names given to the classifiers are made of
NameFragments ==
    { <<"C", "C", "T", "V">>,
      <<"B", "B", "C">>,
      <<"-", "1">>,
      <<"M", "o", "v", "i", "e">>,
      <<"S", "h", "o", "w">>,
      <<"A", "n", "i", "m", "e">>,
      <<"d", "o", "c", "u">>,
      <<"U536B", "U89C6">>,
      <<"U65B0", "U95FB">>,
      <<"U592E">>,
      <<"U89C6">> }

\* the groups given to categorize_vod: None, "Movie", a variety-show label,
\* and the group the parser gives an item that names none
SampleGroups ==
    { <<>>,
      <<"M", "o", "v", "i", "e">>,
      <<"U7EFC", "U827A">>,
      UnknownGroup }

RECURSIVE Names(_)
\* the names made of at most n fragments
Names(n) ==
    IF n = 0
    THEN { <<>> }
    ELSE Names(n - 1) \cup { s \o f : s \in Names(n - 1), f \in NameFragments }

InitClassify ==
    /\ IdleRun
    /\ IdleParse
    /\ IdleProbe
    /\ c_pc = "input"
    /\ c_domain \in {"live", "vod"}
    /\ c_name \in Names(MaxParts)
    /\ c_group \in IF c_domain = "vod" THEN SampleGroups ELSE { <<>> }
    /\ c_category = "none"

\* category = self.categorize_channel(channel['name'])
ClassifyChannel ==
    /\ c_pc = "input"
    /\ c_domain = "live"
    /\ c_category' = categorize_channel(c_name)
    /\ c_pc' = "classified"
    /\ UNCHANGED <<c_domain, c_name, c_group, vars_run, vars_parse, vars_probe>>

\* category = self.categorize_vod(vod['name'], vod.get('group'))
ClassifyVod ==
    /\ c_pc = "input"
    /\ c_domain = "vod"
    /\ c_category' = categorize_vod(c_name, c_group)
    /\ c_pc' = "classified"
    /\ UNCHANGED <<c_domain, c_name, c_group, vars_run, vars_parse, vars_probe>>

NextClassify ==
    \/ ClassifyChannel
    \/ ClassifyVod

SpecClassify ==
    InitClassify /\ [][NextClassify]_vars

-----------------------------------------------------------------------------
(* SpecProbe: one call of is_url_accessible.                               *)

\* the urls probed: each starts with a scheme of UriSchemes, as the url of
\* an entry the parser emitted does
ProbeUrls ==
    { \* http://a.test/1
      <<"h", "t", "t", "p", ":", "/", "/", "a", ".", "t", "e", "s", "t", "/", "1">>,
      \* https://b.test/2
      <<"h", "t", "t", "p", "s", ":", "/", "/", "b", ".", "t", "e", "s", "t", "/", "2">>,
      \* rtmp://c.test/live
      <<"r", "t", "m", "p", ":", "/", "/", "c", ".", "t", "e", "s", "t", "/", "l", "i", "v", "e">>,
      \* https://www.youtube.com/w
      <<"h", "t", "t", "p", "s", ":", "/", "/", "w", "w", "w", ".", "y", "o", "u", "t", "u", "b", "e",
        ".", "c", "o", "m", "/", "w">>,
      \* http://youtu.be/x
      <<"h", "t", "t", "p", ":", "/", "/", "y", "o", "u", "t", "u", ".", "b", "e", "/", "x">>,
      \* https://www.twitch.tv/c
      <<"h", "t", "t", "p", "s", ":", "/", "/", "w", "w", "w", ".", "t", "w", "i", "t", "c", "h",
        ".", "t", "v", "/", "c">>,
      \* http://a.test/youtube.com      (the pattern in the path)
      <<"h", "t", "t", "p", ":", "/", "/", "a", ".", "t", "e", "s", "t", "/",
        "y", "o", "u", "t", "u", "b", "e", ".", "c", "o", "m">>,
      \* http://a.test/?u=twitch.tv     (the pattern in the query)
      <<"h", "t", "t", "p", ":", "/", "/", "a", ".", "t", "e", "s", "t", "/", "?", "u", "=",
        "t", "w", "i", "t", "c", "h", ".", "t", "v">>,
      \* http:///x                      (no host)
      <<"h", "t", "t", "p", ":", "/", "/", "/", "x">> }

InitProbe ==
    /\ IdleRun
    /\ IdleParse
    /\ IdleCls
    /\ q_pc = "call"
    /\ q_rev \in {"v1", "v2"}
    /\ q_url \in ProbeUrls
    /\ q_head = NoAnswer
    /\ q_get = NoAnswer
    /\ q_result = <<>>

\* is_valid, message = self.is_url_accessible(channel)
ProbeV1 ==
    /\ q_pc = "call"
    /\ q_rev = "v1"
    /\ \E head \in Answers :
          LET result == is_url_accessible(q_url, head)
          IN  /\ q_result' = <<result>>
              /\ q_head' = IF result.requests = <<>> THEN NoAnswer ELSE head
    /\ q_pc' = "done"
    /\ UNCHANGED <<q_rev, q_url, q_get, vars_run, vars_parse, vars_cls>>

\* self.is_url_accessible(channel['url']), second revision
ProbeV2 ==
    /\ q_pc = "call"
    /\ q_rev = "v2"
    /\ \E head \in Answers, get \in Answers :
          LET result == is_url_accessible_v2(q_url, head, get)
          IN  /\ q_result' = <<result>>
              /\ q_head' = head
              /\ q_get' = IF Len(result.requests) = 2 THEN get ELSE NoAnswer
    /\ q_pc' = "done"
    /\ UNCHANGED <<q_rev, q_url, vars_run, vars_parse, vars_cls>>

NextProbe ==
    \/ ProbeV1
    \/ ProbeV2

SpecProbe ==
    InitProbe /\ [][NextProbe]_vars

-----------------------------------------------------------------------------
(* Spec: one run of an updater.  Source retrieval and deduplication.       *)

\* the i-th configured primary source: https://p.test/<i>
PrimaryUrl(i) ==
    <<"h", "t", "t", "p", "s", ":", "/", "/", "p", ".", "t", "e", "s", "t", "/">> \o DecStr(i)

\* the i-th configured backup source: https://b.test/<i>
BackupUrl(i) ==
    <<"h", "t", "t", "p", "s", ":", "/", "/", "b", ".", "t", "e", "s", "t", "/">> \o DecStr(i)

\* the playlists the sources serve
SampleContents ==
    { \* two channels, a.test/1 and b.test/2
      << <<"#", "E", "X", "T", "I", "N", "F", ":", "-", "1", " ",
           "g", "r", "o", "u", "p", "-", "t", "i", "t", "l", "e", "=", "\"", "N", "e", "w", "s", "\"",
           ",", "C", "C", "T", "V", "-", "1">>,
         <<"h", "t", "t", "p", ":", "/", "/", "a", ".", "t", "e", "s", "t", "/", "1">>,
         <<"#", "E", "X", "T", "I", "N", "F", ":", "-", "1", ",", "B", "B", "C">>,
         <<"h", "t", "t", "p", ":", "/", "/", "b", ".", "t", "e", "s", "t", "/", "2">> >>,
      \* a.test/1 again, under another name
      << <<"#", "E", "X", "T", "I", "N", "F", ":", "-", "1", ",", "M", "o", "v", "i", "e", " ", "A">>,
         <<"h", "t", "t", "p", ":", "/", "/", "a", ".", "t", "e", "s", "t", "/", "1">> >>,
      \* c.test/3 twice in one source, first as "Test"
      << <<"#", "E", "X", "T", "I", "N", "F", ":", "-", "1", ",", "T", "e", "s", "t">>,
         <<"h", "t", "t", "p", ":", "/", "/", "c", ".", "t", "e", "s", "t", "/", "3">>,
         <<"#", "E", "X", "T", "I", "N", "F", ":", "-", "1", ",", "C", "C", "T", "V", "-", "3">>,
         <<"h", "t", "t", "p", ":", "/", "/", "c", ".", "t", "e", "s", "t", "/", "3">> >>,
      \* a playlist without entries
      << <<"#", "E", "X", "T", "M", "3", "U">> >> }

\* what session.get(url, timeout) does: it raises, or it returns a response
\* with a status and a body
Responses ==
    { [raised |-> TRUE, ok_status |-> FALSE, text |-> <<>>],
      [raised |-> FALSE, ok_status |-> FALSE, text |-> <<>>] }
    \cup { [raised |-> FALSE, ok_status |-> TRUE, text |-> t] : t \in SampleContents \cup { <<>> } }

\* fetch_source(url): <<>> is None, <<text>> the body of a 200 response
fetch_source(response) ==
    IF response.raised
    THEN <<>>
    ELSE IF response.ok_status
    THEN <<response.text>>
    ELSE <<>>

\* if content:  -- neither None nor the empty string
truthy(content) ==
    content # <<>> /\ content[1] # <<>>

\* parse_m3u of the updater of the variant
parse_for(v, lines, source_url) ==
    IF v = "vod"
    THEN parse_m3u_vod(lines, source_url)
    ELSE parse_m3u(lines, source_url)

\* the test that starts the backup stage, with the count of successful
\* sources left out of it
backup_needed_ignoring_count(successful, backups) ==
    backups # <<>>

\* if successful_sources == 0 and backup_sources:
backup_needed(successful, backups) ==
    successful = 0 /\ backups # <<>>

RECURSIVE deduplicate_by_entry(_, _)
\* the loop of deduplicate with the presence test on the whole entry
deduplicate_by_entry(channels, n) ==
    IF n = 0
    THEN <<>>
    ELSE LET unique == deduplicate_by_entry(channels, n - 1)
         IN  IF \E k \in DOMAIN unique : unique[k] = channels[n]
             THEN unique
             ELSE Append(unique, channels[n])

RECURSIVE deduplicate_overwriting(_, _)
\* the loop of deduplicate without the presence test: the dict keeps the
\* place of the first entry of a url and the value of the last
deduplicate_overwriting(channels, n) ==
    IF n = 0
    THEN <<>>
    ELSE LET unique == deduplicate_overwriting(channels, n - 1)
         IN  IF \E k \in DOMAIN unique : unique[k].url = channels[n].url
             THEN [k \in DOMAIN unique |->
                      IF unique[k].url = channels[n].url THEN channels[n] ELSE unique[k]]
             ELSE Append(unique, channels[n])

RECURSIVE deduplicate_once(_, _)
\* the loop of deduplicate leaving out only the first repeated entry it meets
deduplicate_once(channels, n) ==
    IF n = 0
    THEN <<>>
    ELSE LET unique == deduplicate_once(channels, n - 1)
         IN  IF /\ Len(unique) = n - 1
                /\ \E k \in DOMAIN unique : unique[k].url = channels[n].url
             THEN unique
             ELSE Append(unique, channels[n])

RECURSIVE deduplicate_loop(_, _)
\* list(unique_channels.values()) after the loop over the first n entries:
\* a dict lists its values in the order their keys were first inserted
deduplicate_loop(channels, n) ==
    IF n = 0
    THEN <<>>
    ELSE LET unique == deduplicate_loop(channels, n - 1)
         IN  IF \E k \in DOMAIN unique : unique[k].url = channels[n].url
             THEN unique
             ELSE Append(unique, channels[n])

\* unique_channels_list of all_channels
deduplicate(channels) ==
    deduplicate_loop(channels, Len(channels))

Init ==
    /\ IdleParse
    /\ IdleCls
    /\ IdleProbe
    /\ variant \in {"live", "live2", "vod"}
    /\ \E n \in 0..MaxPrimary : sources = [i \in 1..n |-> PrimaryUrl(i)]
    /\ \E n \in 0..MaxBackup :
          backup_sources = IF variant = "vod" THEN <<>> ELSE [i \in 1..n |-> BackupUrl(i)]
    /\ pc = "start"
    /\ idx = 0
    /\ all_channels = <<>>
    /\ successful_sources = 0
    /\ netlog = <<>>
    /\ unique_channels_list = <<>>
    /\ quality_channels = <<>>
    /\ pending = {}
    /\ futures = <<>>
    /\ valid_channels = <<>>
    /\ validation_results = <<>>
    /\ categorized = <<>>
    /\ files = {}
    /\ stats = <<>>

\* run() up to its fetch loop; VODUpdater.run returns when no source is
\* configured
Start ==
    /\ pc = "start"
    /\ IF variant = "vod" /\ sources = <<>>
       THEN pc' = "no_sources" /\ idx' = idx
       ELSE pc' = "fetch_primary" /\ idx' = 1
    /\ UNCHANGED <<variant, sources, backup_sources, all_channels, successful_sources,
                   netlog, unique_channels_list, quality_channels, pending, futures,
                   valid_channels, validation_results, categorized, files, stats,
                   vars_parse, vars_cls, vars_probe>>

\* FetchOne with the failure of a request left uncaught: the run ends there
FetchOne_aborting(stage, url, response) ==
    LET content == fetch_source(response)
        request == [op |-> "get", stage |-> stage, index |-> idx, ok |-> truthy(content)]
    IN  /\ IF truthy(content)
           THEN /\ all_channels' = all_channels \o parse_for(variant, content[1], url)
                /\ successful_sources' = successful_sources + 1
                /\ netlog' = netlog \o <<request, [request EXCEPT !.op = "sleep"]>>
                /\ idx' = idx + 1
                /\ pc' = pc
           ELSE /\ netlog' = Append(netlog, request)
                /\ pc' = "aborted"
                /\ UNCHANGED <<all_channels, successful_sources, idx>>
        /\ UNCHANGED <<variant, sources, backup_sources, unique_channels_list,
                       quality_channels, pending, futures, valid_channels, validation_results,
                       categorized, files, stats, vars_parse, vars_cls, vars_probe>>

\* one iteration of a fetch loop, on the source url of the stage
FetchOne(stage, url, response) ==
    LET content == fetch_source(response)
        request == [op |-> "get", stage |-> stage, index |-> idx, ok |-> truthy(content)]
    IN  /\ IF truthy(content)
           THEN /\ all_channels' = all_channels \o parse_for(variant, content[1], url)
                /\ successful_sources' = successful_sources + 1
                /\ netlog' = netlog \o <<request, [request EXCEPT !.op = "sleep"]>>
           ELSE /\ netlog' = Append(netlog, request)
                /\ UNCHANGED <<all_channels, successful_sources>>
        /\ idx' = idx + 1
        /\ UNCHANGED <<variant, sources, backup_sources, pc, unique_channels_list,
                       quality_channels, pending, futures, valid_channels, validation_results,
                       categorized, files, stats, vars_parse, vars_cls, vars_probe>>

\* for source_url in sources: ...
FetchPrimary ==
    /\ pc = "fetch_primary"
    /\ idx <= Len(sources)
    /\ \E response \in Responses : FetchOne("primary", sources[idx], response)

\* the end of the loop over the primary sources, and the test that follows it
PrimaryDone ==
    /\ pc = "fetch_primary"
    /\ idx > Len(sources)
    /\ IF variant # "vod" /\ backup_needed(successful_sources, backup_sources)
       THEN pc' = "fetch_backup" /\ idx' = 1
       ELSE pc' = (IF variant = "live" THEN "dedup" ELSE "check_data") /\ idx' = idx
    /\ UNCHANGED <<variant, sources, backup_sources, all_channels, successful_sources,
                   netlog, unique_channels_list, quality_channels, pending, futures,
                   valid_channels, validation_results, categorized, files, stats,
                   vars_parse, vars_cls, vars_probe>>

\* for backup_url in backup_sources: ...
FetchBackup ==
    /\ pc = "fetch_backup"
    /\ idx <= Len(backup_sources)
    /\ \E response \in Responses : FetchOne("backup", backup_sources[idx], response)

\* the end of the loop over the backup sources
BackupDone ==
    /\ pc = "fetch_backup"
    /\ idx > Len(backup_sources)
    /\ pc' = (IF variant = "live" THEN "dedup" ELSE "check_data")
    /\ UNCHANGED <<variant, sources, backup_sources, idx, all_channels, successful_sources,
                   netlog, unique_channels_list, quality_channels, pending, futures,
                   valid_channels, validation_results, categorized, files, stats,
                   vars_parse, vars_cls, vars_probe>>

\* if not all_channels: log the error and return   (run and VODUpdater.run;
\* IPTVUpdater.run holds no such test)
CheckData ==
    /\ pc = "check_data"
    /\ pc' = (IF all_channels = <<>> THEN "no_data" ELSE "dedup")
    /\ UNCHANGED <<variant, sources, backup_sources, idx, all_channels, successful_sources,
                   netlog, unique_channels_list, quality_channels, pending, futures,
                   valid_channels, validation_results, categorized, files, stats,
                   vars_parse, vars_cls, vars_probe>>

\* the deduplication by url
Deduplicate ==
    /\ pc = "dedup"
    /\ unique_channels_list' = deduplicate(all_channels)
    /\ pc' = (IF variant = "live" THEN "write_raw"
              ELSE IF variant = "live2" THEN "sample"
              ELSE "playlists")
    /\ UNCHANGED <<variant, sources, backup_sources, idx, all_channels, successful_sources,
                   netlog, quality_channels, pending, futures,
                   valid_channels, validation_results, categorized, files, stats,
                   vars_parse, vars_cls, vars_probe>>

-----------------------------------------------------------------------------
(* Spec: one run of an updater.  Filtering, probing, classification,       *)
(* the files and the statistics record.                                    *)

\* most channels the second revision of run() probes
SampleLimit == 100

\* the names filter_quality_channels drops
BadNames ==
    << <<"t", "e", "s", "t">>,
       <<"e", "x", "a", "m", "p", "l", "e">>,
       <<"d", "e", "m", "o">>,
       <<"U65E0", "U6548">>,
       <<"U6D4B", "U8BD5">> >>

RECURSIVE filter_quality_loop(_, _)
\* quality_channels after the loop over the first n channels: a channel with
\* a bad name is skipped, every other channel is appended (by either branch)
filter_quality_loop(channels, n) ==
    IF n = 0
    THEN <<>>
    ELSE IF any_keyword_in(BadNames, lower(channels[n].name))
    THEN filter_quality_loop(channels, n - 1)
    ELSE Append(filter_quality_loop(channels, n - 1), channels[n])

\* IPTVUpdater.filter_quality_channels(channels)
filter_quality_channels(channels) ==
    filter_quality_loop(channels, Len(channels))

\* the category of an entry, by the classifier of the variant
category_of(v, channel) ==
    IF v = "vod"
    THEN categorize_vod(channel.name, channel.group)
    ELSE categorize_channel(channel.name)

categories_of(v) ==
    IF v = "vod" THEN VodCategories ELSE LiveCategories

RECURSIVE categorize_loop(_, _, _)
\* categorized after the loop over the first n channels:
\*     categorized[category].append(channel)
categorize_loop(v, channels, n) ==
    IF n = 0
    THEN [c \in Range(categories_of(v)) |-> <<>>]
    ELSE LET acc == categorize_loop(v, channels, n - 1)
         IN  [acc EXCEPT ![category_of(v, channels[n])] = Append(@, channels[n])]

categorize_all(v, channels) ==
    categorize_loop(v, channels, Len(channels))

\* outputs/<stem>.m3u
PlaylistFile(stem) ==
    <<"outputs/", stem, ".m3u">>

\* outputs/vod_<stem>.m3u
VodPlaylistFile(stem) ==
    <<"outputs/vod_", stem, ".m3u">>

\* outputs/<stem>.json
JsonFile(stem) ==
    <<"outputs/", stem, ".json">>

\* the files of the categories that hold an entry:  if channels: ... open(...)
category_files(v, by_category) ==
    { IF v = "vod" THEN VodPlaylistFile(c) ELSE PlaylistFile(c) :
        c \in { c \in DOMAIN by_category : by_category[c] # <<>> } }

\* {k: len(v) for k, v in categorized.items()}
category_counts(by_category) ==
    [c \in DOMAIN by_category |-> Len(by_category[c])]

\* the number of TRUE among the answers of is_url_accessible
count_true(answers) ==
    Cardinality({i \in DOMAIN answers : answers[i]})

min(a, b) ==
    IF a < b THEN a ELSE b

\* the statistics record of IPTVUpdater.run
stats_live ==
    [sources_attempted  |-> Len(sources) + Len(backup_sources),
     sources_successful |-> successful_sources,
     total_channels     |-> Len(unique_channels_list),
     quality_channels   |-> Len(quality_channels),
     valid_channels     |-> Len(valid_channels),
     categories         |-> category_counts(categorized)]

\* the statistics record of the second revision of run; valid_count and
\* sample_size stand for validity_ratio, their quotient
stats_live2 ==
    [sources_attempted  |-> Len(sources) + Len(backup_sources),
     sources_successful |-> successful_sources,
     total_channels     |-> Len(unique_channels_list),
     valid_count        |-> count_true(validation_results),
     sample_size        |-> Len(validation_results),
     categories         |-> category_counts(categorized)]

\* the statistics record of VODUpdater.run
stats_vod ==
    [vod_sources_attempted  |-> Len(sources),
     vod_sources_successful |-> successful_sources,
     total_vod_items        |-> Len(unique_channels_list),
     vod_categories         |-> category_counts(categorized)]

\* raw_content = generate_m3u_content(...); write outputs/full_raw.m3u
WriteRaw ==
    /\ pc = "write_raw"
    /\ files' = files \cup {PlaylistFile("full_raw")}
    /\ pc' = "filter"
    /\ UNCHANGED <<variant, sources, backup_sources, idx, all_channels, successful_sources,
                   netlog, unique_channels_list, quality_channels, pending, futures,
                   valid_channels, validation_results, categorized, stats,
                   vars_parse, vars_cls, vars_probe>>

\* quality_channels = self.filter_quality_channels(unique_channels_list)
FilterQuality ==
    /\ pc = "filter"
    /\ quality_channels' = filter_quality_channels(unique_channels_list)
    /\ pc' = "submit"
    /\ UNCHANGED <<variant, sources, backup_sources, idx, all_channels, successful_sources,
                   netlog, unique_channels_list, pending, futures,
                   valid_channels, validation_results, categorized, files, stats,
                   vars_parse, vars_cls, vars_probe>>

\* max_workers of validate_channels_parallel
max_workers ==
    10

\* what the network answers to the HEAD request of a probe of a run
ProbeAnswers ==
    { [raised |-> "none", status_code |-> 200],
      [raised |-> "none", status_code |-> 404],
      [raised |-> "Timeout", status_code |-> 0] }

\* the futures of the executor in state st
InState(st) ==
    { i \in DOMAIN futures : futures[i].state = st }

\* validate_channels_parallel: one future per channel is submitted; the
\* executor starts a worker thread per task up to max_workers, the other
\* tasks wait in its queue
SubmitProbes ==
    /\ pc = "submit"
    /\ pending' = DOMAIN quality_channels
    /\ futures' = [i \in DOMAIN quality_channels |->
                      [state  |-> IF i <= max_workers THEN "running" ELSE "queued",
                       result |-> <<>>]]
    /\ valid_channels' = <<>>
    /\ validation_results' = <<>>
    /\ pc' = "collect"
    /\ UNCHANGED <<variant, sources, backup_sources, idx, all_channels, successful_sources,
                   netlog, unique_channels_list, quality_channels,
                   categorized, files, stats, vars_parse, vars_cls, vars_probe>>

\* a worker thread: is_url_accessible(channel) returns and the future holds
\* its result; the worker takes the next task of the queue
RunProbe ==
    /\ pc = "collect"
    /\ \E i \in InState("running"), head \in ProbeAnswers :
          LET result == is_url_accessible(quality_channels[i].url, head)
              done   == [futures EXCEPT ![i] =
                            [state  |-> "finished",
                             result |-> <<[valid |-> result.valid, message |-> result.message]>>]]
          IN  futures' = IF InState("queued") = {}
                         THEN done
                         ELSE [done EXCEPT
                                 ![CHOOSE k \in InState("queued") :
                                      \A j \in InState("queued") : k <= j].state = "running"]
    /\ UNCHANGED <<variant, sources, backup_sources, pc, idx, all_channels,
                   successful_sources, netlog, unique_channels_list, quality_channels,
                   pending, valid_channels, validation_results,
                   categorized, files, stats, vars_parse, vars_cls, vars_probe>>

\* CollectProbe with the failure of a probe left to end the collecting loop
CollectProbe_aborting ==
    /\ pc = "collect"
    /\ \E i \in pending :
          /\ futures[i].state = "finished"
          /\ LET channel  == quality_channels[i]
                 is_valid == futures[i].result[1].valid
                 message  == futures[i].result[1].message
             IN  IF is_valid
                 THEN /\ valid_channels' = Append(valid_channels, channel)
                      /\ validation_results' = Append(validation_results,
                            [channel |-> channel.name,
                             url     |-> channel.url,
                             valid   |-> is_valid,
                             message |-> message])
                      /\ pending' = pending \ {i}
                      /\ pc' = pc
                 ELSE /\ pc' = "aborted"
                      /\ pending' = pending \ {i}
                      /\ UNCHANGED <<valid_channels, validation_results>>
    /\ UNCHANGED <<variant, sources, backup_sources, idx, all_channels,
                   successful_sources, netlog, unique_channels_list, quality_channels,
                   futures, categorized, files, stats, vars_parse, vars_cls, vars_probe>>

\* CollectProbe with the result of the yielded future recorded for the
\* channel at the place of the record, not for the channel of the future
CollectProbe_by_position ==
    /\ pc = "collect"
    /\ \E i \in pending :
          /\ futures[i].state = "finished"
          /\ LET channel  == quality_channels[Len(validation_results) + 1]
                 is_valid == futures[i].result[1].valid
                 message  == futures[i].result[1].message
             IN  /\ valid_channels' = IF is_valid
                                      THEN Append(valid_channels, channel)
                                      ELSE valid_channels
                 /\ validation_results' = Append(validation_results,
                       [channel |-> channel.name,
                        url     |-> channel.url,
                        valid   |-> is_valid,
                        message |-> message])
          /\ pending' = pending \ {i}
          /\ pc' = pc
    /\ UNCHANGED <<variant, sources, backup_sources, idx, all_channels,
                   successful_sources, netlog, unique_channels_list, quality_channels,
                   futures, categorized, files, stats, vars_parse, vars_cls, vars_probe>>

\* ValidationDone without the wait for the futures
ValidationDone_early ==
    /\ pc = "collect"
    /\ pc' = "classify"
    /\ UNCHANGED <<variant, sources, backup_sources, idx, all_channels, successful_sources,
                   netlog, unique_channels_list, quality_channels, pending, futures,
                   valid_channels, validation_results, categorized, files, stats,
                   vars_parse, vars_cls, vars_probe>>

\* validate_channels_parallel, the collecting thread: as_completed yields a
\* finished future, channel = future_to_channel[future], and the result of
\* the future is recorded.  (future.result() raises nothing:
\* is_url_accessible catches every Exception.)
CollectProbe ==
    /\ pc = "collect"
    /\ \E i \in pending :
          /\ futures[i].state = "finished"
          /\ LET channel  == quality_channels[i]
                 is_valid == futures[i].result[1].valid
                 message  == futures[i].result[1].message
             IN  /\ valid_channels' = IF is_valid
                                      THEN Append(valid_channels, channel)
                                      ELSE valid_channels
                 /\ validation_results' = Append(validation_results,
                       [channel |-> channel.name,
                        url     |-> channel.url,
                        valid   |-> is_valid,
                        message |-> message])
          /\ pending' = pending \ {i}
    /\ UNCHANGED <<variant, sources, backup_sources, pc, idx, all_channels,
                   successful_sources, netlog, unique_channels_list, quality_channels,
                   futures, categorized, files, stats, vars_parse, vars_cls, vars_probe>>

\* validate_channels_parallel returns once every future was collected
ValidationDone ==
    /\ pc = "collect"
    /\ pending = {}
    /\ pc' = "classify"
    /\ UNCHANGED <<variant, sources, backup_sources, idx, all_channels, successful_sources,
                   netlog, unique_channels_list, quality_channels, pending, futures,
                   valid_channels, validation_results, categorized, files, stats,
                   vars_parse, vars_cls, vars_probe>>

\* IPTVUpdater.run: the valid channels are classified
ClassifyValid ==
    /\ pc = "classify"
    /\ categorized' = categorize_all(variant, valid_channels)
    /\ pc' = "write_validated"
    /\ UNCHANGED <<variant, sources, backup_sources, idx, all_channels, successful_sources,
                   netlog, unique_channels_list, quality_channels, pending, futures,
                   valid_channels, validation_results, files, stats,
                   vars_parse, vars_cls, vars_probe>>

\* IPTVUpdater.run: outputs/full_validated.m3u and the files of the categories
WriteValidated ==
    /\ pc = "write_validated"
    /\ files' = files \cup {PlaylistFile("full_validated")}
                      \cup category_files(variant, categorized)
    /\ pc' = "summarize"
    /\ UNCHANGED <<variant, sources, backup_sources, idx, all_channels, successful_sources,
                   netlog, unique_channels_list, quality_channels, pending, futures,
                   valid_channels, validation_results, categorized, stats,
                   vars_parse, vars_cls, vars_probe>>

\* run (second revision): is_url_accessible on the first sample_size channels,
\* one after the other
SampleValidity ==
    /\ pc = "sample"
    /\ \E answers \in [1..min(SampleLimit, Len(unique_channels_list)) -> BOOLEAN] :
          validation_results' = answers
    /\ pc' = "playlists"
    /\ UNCHANGED <<variant, sources, backup_sources, idx, all_channels, successful_sources,
                   netlog, unique_channels_list, quality_channels, pending, futures,
                   valid_channels, categorized, files, stats,
                   vars_parse, vars_cls, vars_probe>>

\* generate_complete_playlist(unique_channels_list)
GenerateCompletePlaylist ==
    /\ pc = "playlists"
    /\ variant = "live2"
    /\ categorized' = categorize_all(variant, unique_channels_list)
    /\ files' = files \cup {PlaylistFile("full")}
                      \cup category_files(variant, categorized')
    /\ pc' = "summarize"
    /\ UNCHANGED <<variant, sources, backup_sources, idx, all_channels, successful_sources,
                   netlog, unique_channels_list, quality_channels, pending, futures,
                   valid_channels, validation_results, stats,
                   vars_parse, vars_cls, vars_probe>>

\* VODUpdater.generate_playlists(unique_vod_list), then update_vod_list_json
GeneratePlaylists ==
    /\ pc = "playlists"
    /\ variant = "vod"
    /\ categorized' = categorize_all(variant, unique_channels_list)
    /\ files' = files \cup {VodPlaylistFile("full"), JsonFile("vod_list")}
                      \cup category_files(variant, categorized')
    /\ pc' = "summarize"
    /\ UNCHANGED <<variant, sources, backup_sources, idx, all_channels, successful_sources,
                   netlog, unique_channels_list, quality_channels, pending, futures,
                   valid_channels, validation_results, stats,
                   vars_parse, vars_cls, vars_probe>>

\* the statistics record is built and written
Summarize ==
    /\ pc = "summarize"
    /\ stats' = << IF variant = "live" THEN stats_live
                   ELSE IF variant = "live2" THEN stats_live2
                   ELSE stats_vod >>
    /\ files' = files \cup {JsonFile(IF variant = "vod" THEN "vod_stats" ELSE "stats")}
    /\ pc' = "done"
    /\ UNCHANGED <<variant, sources, backup_sources, idx, all_channels, successful_sources,
                   netlog, unique_channels_list, quality_channels, pending, futures,
                   valid_channels, validation_results, categorized,
                   vars_parse, vars_cls, vars_probe>>

Next ==
    \/ Start
    \/ FetchPrimary
    \/ PrimaryDone
    \/ FetchBackup
    \/ BackupDone
    \/ CheckData
    \/ Deduplicate
    \/ WriteRaw
    \/ FilterQuality
    \/ SubmitProbes
    \/ RunProbe
    \/ CollectProbe
    \/ ValidationDone
    \/ ClassifyValid
    \/ WriteValidated
    \/ SampleValidity
    \/ GenerateCompletePlaylist
    \/ GeneratePlaylists
    \/ Summarize

Spec ==
    Init /\ [][Next]_vars

-----------------------------------------------------------------------------
(* SpecValidate: a run from its call of validate_channels_parallel on,     *)
(* with worker threads and a collecting thread that keep running.          *)

\* the entries of the playlist the one source of the run served
ValidateEntries ==
    { \* #EXTINF:-1 group-title="News",CCTV-1 / http://a.test/1
      << <<"#", "E", "X", "T", "I", "N", "F", ":", "-", "1", " ",
           "g", "r", "o", "u", "p", "-", "t", "i", "t", "l", "e", "=", "\"", "N", "e", "w", "s", "\"",
           ",", "C", "C", "T", "V", "-", "1">>,
         <<"h", "t", "t", "p", ":", "/", "/", "a", ".", "t", "e", "s", "t", "/", "1">> >>,
      \* #EXTINF:-1,BBC / http://b.test/2
      << <<"#", "E", "X", "T", "I", "N", "F", ":", "-", "1", ",", "B", "B", "C">>,
         <<"h", "t", "t", "p", ":", "/", "/", "b", ".", "t", "e", "s", "t", "/", "2">> >>,
      \* #EXTINF:-1,CCTV-3 / http://c.test/3
      << <<"#", "E", "X", "T", "I", "N", "F", ":", "-", "1", ",", "C", "C", "T", "V", "-", "3">>,
         <<"h", "t", "t", "p", ":", "/", "/", "c", ".", "t", "e", "s", "t", "/", "3">> >> }

RECURSIVE playlist_of(_, _)
\* the lines of the first n entries of a list of entries
playlist_of(entries, n) ==
    IF n = 0 THEN <<>> ELSE playlist_of(entries, n - 1) \o entries[n]

\* IPTVUpdater.run where it calls validate_channels_parallel, its one source
\* having served a playlist of up to MaxChannels entries
InitValidate ==
    /\ IdleParse
    /\ IdleCls
    /\ IdleProbe
    /\ variant = "live"
    /\ sources = <<PrimaryUrl(1)>>
    /\ backup_sources = <<>>
    /\ pc = "submit"
    /\ idx = 2
    /\ \E k \in 1..MaxChannels : \E entries \in [1..k -> ValidateEntries] :
          all_channels = parse_m3u(playlist_of(entries, k), PrimaryUrl(1))
    /\ successful_sources = 1
    /\ netlog = << [op |-> "get", stage |-> "primary", index |-> 1, ok |-> TRUE],
                   [op |-> "sleep", stage |-> "primary", index |-> 1, ok |-> TRUE] >>
    /\ unique_channels_list = deduplicate(all_channels)
    /\ quality_channels = filter_quality_channels(unique_channels_list)
    /\ pending = {}
    /\ futures = <<>>
    /\ valid_channels = <<>>
    /\ validation_results = <<>>
    /\ categorized = <<>>
    /\ files = {PlaylistFile("full_raw")}
    /\ stats = <<>>

\* the steps of validate_channels_parallel once the futures are submitted
ProbeStage ==
    \/ RunProbe
    \/ CollectProbe
    \/ ValidationDone

NextValidate ==
    \/ SubmitProbes
    \/ ProbeStage
    \/ ClassifyValid
    \/ WriteValidated
    \/ Summarize

\* each probe returns (requests.head has a timeout) and as_completed yields
\* what is finished: a step of the probe stage that stays possible is taken
SpecValidate ==
    /\ InitValidate
    /\ [][NextValidate]_vars
    /\ WF_<<pc, pending, futures>>(ProbeStage)

-----------------------------------------------------------------------------
(* Properties of a run (Spec).                                             *)

\* run() is past its deduplication step
Deduplicated ==
    pc \in {"write_raw", "filter", "submit", "collect", "classify", "write_validated",
            "sample", "playlists", "summarize", "done"}

\* run() is past its fetch loops
Fetched ==
    pc \notin {"start", "no_sources", "fetch_primary", "fetch_backup"}

\* the places of all_channels that hold the first entry of their url
FirstOccurrences ==
    {i \in DOMAIN all_channels :
        \A j \in 1..(i - 1) : all_channels[j].url # all_channels[i].url}

\* the k-th smallest place of FirstOccurrences
FirstOccurrence(k) ==
    CHOOSE i \in FirstOccurrences :
        Cardinality({j \in FirstOccurrences : j <= i}) = k

\* C1: the deduplicated list holds no two entries of the same url, and is no
\* longer than the concatenated list it was made from.
C1_UniqueUrls ==
    Deduplicated =>
        /\ \A i, j \in DOMAIN unique_channels_list :
              i # j => unique_channels_list[i].url # unique_channels_list[j].url
        /\ Len(unique_channels_list) <= Len(all_channels)

\* a deduplication that dropped an entry and kept two
C1_Witness ==
    /\ Deduplicated
    /\ Len(unique_channels_list) >= 2
    /\ Len(unique_channels_list) < Len(all_channels)

\* C2: the deduplicated list is, in the order of first occurrence, the first
\* entry of each url of the concatenated list, every field unchanged.
C2_FirstOccurrenceKept ==
    Deduplicated =>
        /\ Len(unique_channels_list) = Cardinality(FirstOccurrences)
        /\ \A k \in DOMAIN unique_channels_list :
              unique_channels_list[k] = all_channels[FirstOccurrence(k)]

\* two sources served the same url under different names; the entry of the
\* earlier source is the one kept
C2_Witness ==
    /\ Deduplicated
    /\ \E i, j \in DOMAIN all_channels :
          /\ i < j
          /\ i \in FirstOccurrences
          /\ all_channels[i].url = all_channels[j].url
          /\ all_channels[i].source # all_channels[j].source
          /\ all_channels[i].name # all_channels[j].name
          /\ \E k \in DOMAIN unique_channels_list :
                unique_channels_list[k] = all_channels[i]

\* C3: deduplicating the deduplicated list yields the same list.
C3_Idempotent ==
    Deduplicated => deduplicate(unique_channels_list) = unique_channels_list

\* a deduplication that dropped two entries or more
C3_Witness ==
    /\ Deduplicated
    /\ unique_channels_list # <<>>
    /\ Len(all_channels) >= Len(unique_channels_list) + 2

IsGet(e, stage) ==
    e.op = "get" /\ e.stage = stage

\* C4: a backup source is requested only when the backup list is not empty,
\* every primary source was requested before it and none of those requests
\* counted as successful.
C4_BackupOnlyAfterAllPrimariesFailed ==
    \A i \in DOMAIN netlog :
        IsGet(netlog[i], "backup") =>
            /\ backup_sources # <<>>
            /\ \A p \in DOMAIN sources :
                  \E j \in 1..(i - 1) : IsGet(netlog[j], "primary") /\ netlog[j].index = p
            /\ \A j \in 1..(i - 1) : IsGet(netlog[j], "primary") => ~netlog[j].ok
            /\ \A j \in DOMAIN netlog : IsGet(netlog[j], "primary") => j < i

\* a backup source was requested after two primary sources failed
C4_Witness ==
    /\ Len(sources) >= 2
    /\ \E i \in DOMAIN netlog : IsGet(netlog[i], "backup")

IsPlaylist(f) ==
    f[3] = ".m3u"

\* every configured source was requested and no request counted as successful
AllSourcesFailed ==
    /\ Fetched
    /\ sources # <<>>
    /\ \A p \in DOMAIN sources :
          \E j \in DOMAIN netlog : IsGet(netlog[j], "primary") /\ netlog[j].index = p
    /\ \A b \in DOMAIN backup_sources :
          \E j \in DOMAIN netlog : IsGet(netlog[j], "backup") /\ netlog[j].index = b
    /\ \A j \in DOMAIN netlog : ~netlog[j].ok

\* C5: when every primary and every backup source fails, the run counts zero
\* successful sources, writes no playlist file and does not complete as a
\* run with data does.
C5_AllFailedWritesNoPlaylist ==
    AllSourcesFailed =>
        /\ successful_sources = 0
        /\ \A f \in files : ~IsPlaylist(f)
        /\ pc # "done"

\* C6: the no-data halt is taken only when no source was fetched
\* successfully; a run with a successful source and no entries goes on to
\* render and summarize.
C6_NoDataHaltOnlyWithoutSuccess ==
    pc = "no_data" => successful_sources = 0

\* the category counts of the statistics record, and its total
StatsCategories ==
    IF variant = "vod" THEN stats[1].vod_categories ELSE stats[1].categories

StatsTotal ==
    IF variant = "vod" THEN stats[1].total_vod_items ELSE stats[1].total_channels

RECURSIVE SumCounts(_, _)
SumCounts(counts, cats) ==
    IF cats = {}
    THEN 0
    ELSE LET c == CHOOSE x \in cats : TRUE
         IN  counts[c] + SumCounts(counts, cats \ {c})

\* the number of places the entry takes in the bucket
Occurrences(bucket, entry) ==
    Cardinality({k \in DOMAIN bucket : bucket[k] = entry})

\* C7: in a run that wrote its statistics record, every deduplicated entry is
\* in exactly one category bucket, and the category counts of the record add
\* up to its total of deduplicated entries.
C7_CategoriesPartitionDeduplicated ==
    pc = "done" =>
        /\ \A i \in DOMAIN unique_channels_list :
              SumCounts([c \in DOMAIN categorized |->
                            Occurrences(categorized[c], unique_channels_list[i])],
                        DOMAIN categorized) = 1
        /\ SumCounts(StatsCategories, DOMAIN StatsCategories) = StatsTotal

-----------------------------------------------------------------------------
(* Properties of the fetch stage (Spec).                                   *)

\* the step appends a request that did not count as successful
FailedFetchStep ==
    /\ Len(netlog') = Len(netlog) + 1
    /\ netlog'[Len(netlog')].op = "get"
    /\ ~netlog'[Len(netlog')].ok

\* the stage requested each of its sources
StageRequestedAll(stage, urls) ==
    \A k \in DOMAIN urls :
        \E j \in DOMAIN netlog : IsGet(netlog[j], stage) /\ netlog[j].index = k

\* C11: a failed fetch does not end the run: the step that fails leaves the
\* collected entries and the count as they are and moves on to the next
\* source of the stage, and once a stage is over each of its sources was
\* requested.
C11_FailedFetchSkipsOnlyItsSource ==
    /\ [][FailedFetchStep =>
             /\ all_channels' = all_channels
             /\ successful_sources' = successful_sources
             /\ pc' = pc
             /\ idx' = idx + 1]_vars
    /\ [](pc \notin {"start", "no_sources", "fetch_primary"} =>
             StageRequestedAll("primary", sources))
    /\ []((pc \notin {"start", "no_sources", "fetch_primary", "fetch_backup"}
              /\ \E j \in DOMAIN netlog : IsGet(netlog[j], "backup")) =>
             StageRequestedAll("backup", backup_sources))

\* a request failed after entries were collected, and a later source of the
\* stage was requested after a failure
C11_Witness ==
    /\ \E i \in DOMAIN netlog :
          /\ IsGet(netlog[i], "primary") /\ ~netlog[i].ok
          /\ \E j \in 1..(i - 1) : IsGet(netlog[j], "primary") /\ netlog[j].ok
    /\ all_channels # <<>>
    /\ Len(sources) >= 2
    /\ pc = "done"

\* the requests of the run, in order
Requests ==
    SelectSeq(netlog, LAMBDA e : e.op = "get")

\* C13: the sources-attempted value of the statistics record is the number
\* of sources that were requested in the run.
C13_AttemptedCountsRequests ==
    pc = "done" =>
        (IF variant = "vod"
         THEN stats[1].vod_sources_attempted
         ELSE stats[1].sources_attempted) = Len(Requests)

\* C19: between any two consecutive requests of a run the pause is taken,
\* whether the earlier request succeeded or failed.
C19_PauseBetweenRequests ==
    \A i, j \in DOMAIN netlog :
        (i < j /\ netlog[i].op = "get" /\ netlog[j].op = "get") =>
            \E k \in (i + 1)..(j - 1) : netlog[k].op = "sleep"

-----------------------------------------------------------------------------
(* Properties of the probe stage of a run (Spec, SpecValidate).            *)

\* validate_channels_parallel has returned
AfterProbe ==
    /\ variant = "live"
    /\ pc \in {"classify", "write_validated", "summarize", "done"}

\* the records of the channel of future i
RecordsOf(i) ==
    { k \in DOMAIN validation_results : validation_results[k].url = quality_channels[i].url }

\* the places of the channel of future i in valid_channels
PlacesOf(i) ==
    { k \in DOMAIN valid_channels : valid_channels[k] = quality_channels[i] }

\* the probe of future i returned unreachable
ProbeFailed(i) ==
    /\ futures[i].state = "finished"
    /\ ~futures[i].result[1].valid

\* the step collects the failed future i
CollectsFailed(i) ==
    /\ pc = "collect"
    /\ i \in pending
    /\ i \notin pending'
    /\ ProbeFailed(i)

\* C16: the failure of a probe does not end validate_channels_parallel: the
\* step that collects it stays in the collecting loop, appends a record with
\* valid = false for the entry and leaves the reachable list as it is; once
\* the function has returned every entry has a record, and the entries
\* whose probe failed are not in the reachable list.
C16_FailedProbeIsRecordedOnly ==
    /\ [][\A i \in DOMAIN futures :
             CollectsFailed(i) =>
                 /\ pc' = "collect"
                 /\ valid_channels' = valid_channels
                 /\ Len(validation_results') = Len(validation_results) + 1
                 /\ validation_results'[Len(validation_results')].url = quality_channels[i].url
                 /\ ~validation_results'[Len(validation_results')].valid]_vars
    /\ [](AfterProbe =>
             \A i \in DOMAIN quality_channels :
                 /\ RecordsOf(i) # {}
                 /\ ProbeFailed(i) =>
                       /\ PlacesOf(i) = {}
                       /\ \A k \in RecordsOf(i) : ~validation_results[k].valid)

\* two entries were probed, the probe of one timed out and the other one is
\* in the reachable list
C16_Witness ==
    /\ AfterProbe
    /\ pc = "done"
    /\ \E i, j \in DOMAIN quality_channels :
          /\ ProbeFailed(i)
          /\ futures[i].result[1].message = <<"timeout">>
          /\ PlacesOf(i) = {}
          /\ futures[j].result[1].valid
          /\ PlacesOf(j) # {}

\* C17: whatever the order in which the probes finish and are collected,
\* every collected entry has one record, holding the result of its own
\* probe, and stands in the reachable list once if that result is reachable
\* and not at all otherwise; an entry not yet collected has neither; and a
\* step of a worker thread changes neither list.
C17_OneRecordPerEntryOwnResult ==
    /\ []((variant = "live" /\ futures # <<>>) =>
             /\ \A i \in DOMAIN quality_channels \ pending :
                   /\ Cardinality(RecordsOf(i)) = 1
                   /\ \A k \in RecordsOf(i) :
                         /\ validation_results[k].valid = futures[i].result[1].valid
                         /\ validation_results[k].message = futures[i].result[1].message
                         /\ validation_results[k].channel = quality_channels[i].name
                   /\ Cardinality(PlacesOf(i)) = IF futures[i].result[1].valid THEN 1 ELSE 0
             /\ \A i \in pending : RecordsOf(i) = {} /\ PlacesOf(i) = {}
             /\ Len(validation_results) = Cardinality(DOMAIN quality_channels \ pending)
             /\ Len(valid_channels) =
                   Cardinality({ i \in DOMAIN quality_channels \ pending :
                                   futures[i].result[1].valid }))
    /\ [][(pc = "collect" /\ futures' # futures) =>
             UNCHANGED <<valid_channels, validation_results, pending>>]_vars

\* the second entry was collected first, and the two probes differ in their
\* results
C17_Witness ==
    /\ AfterProbe
    /\ Len(quality_channels) >= 2
    /\ validation_results[1].url = quality_channels[2].url
    /\ futures[1].result[1].valid # futures[2].result[1].valid

\* C18: the run is past validate_channels_parallel (classification, the
\* validated playlist, the reachable count) only when every submitted probe
\* has finished and was collected; and, the probes returning and the
\* collecting thread running, the run gets past it.
C18_ProbeStageIsABarrier ==
    /\ [](variant = "live" =>
             /\ pc \in {"classify", "write_validated", "summarize", "done"} =>
                   /\ pending = {}
                   /\ \A i \in DOMAIN quality_channels : futures[i].state = "finished"
                   /\ Len(validation_results) = Len(quality_channels)
             /\ (categorized # <<>> \/ stats # <<>>
                   \/ PlaylistFile("full_validated") \in files) =>
                   /\ pending = {}
                   /\ DOMAIN futures = DOMAIN quality_channels
                   /\ \A i \in DOMAIN quality_channels : futures[i].state = "finished")
    /\ (pc = "collect") ~> (pc = "classify")

\* the run got past the probe stage with two probes
C18_Witness ==
    /\ AfterProbe
    /\ pc = "classify"
    /\ Len(quality_channels) >= 2
    /\ pending = {}

\* the place of a channel in the deduplicated list
PlaceInDeduplicated(channel) ==
    CHOOSE k \in DOMAIN unique_channels_list : unique_channels_list[k] = channel

\* C20: the reachable entries of the validated playlist stand in the order
\* they have in the deduplicated list, whatever the order in which the
\* probes finish.
C20_ValidatedKeepsDeduplicatedOrder ==
    AfterProbe =>
        \A a, b \in DOMAIN valid_channels :
            a < b => PlaceInDeduplicated(valid_channels[a]) < PlaceInDeduplicated(valid_channels[b])

-----------------------------------------------------------------------------
(* Properties of the parser and the renderer (SpecParse).                  *)

Parsed ==
    p_pc \in {"parsed", "rendered", "reparsed"}

\* the fields of an entry the round trip compares; a field the entry does
\* not hold reads as the empty string
entry_group(e) ==
    IF "group" \in DOMAIN e THEN e.group ELSE <<>>

entry_logo(e) ==
    IF "logo" \in DOMAIN e THEN e.logo ELSE <<>>

\* the name of the entry was synthesized: its metadata line holds no comma
synthesized(e) ==
    name_match(e.raw_extinf) = <<>>

\* C9: every entry emitted by parse_m3u has a non-empty name.
C9_NameNeverEmpty ==
    Parsed => \A i \in DOMAIN p_channels : p_channels[i].name # <<>>

\* C10: rendering the parsed entries and parsing the rendered text again
\* yields a list equal in length, in order and in the name, url, group and
\* logo of each entry, synthesized names included.
C10_RoundTripAllNames ==
    p_pc = "reparsed" =>
        /\ Len(p_reparsed) = Len(p_channels)
        /\ \A i \in DOMAIN p_channels :
              /\ p_reparsed[i].name = p_channels[i].name
              /\ p_reparsed[i].url = p_channels[i].url
              /\ entry_group(p_reparsed[i]) = entry_group(p_channels[i])
              /\ entry_logo(p_reparsed[i]) = entry_logo(p_channels[i])

\* C10 (amended): the round trip yields a list equal in length, in order and
\* in the url, group and logo of each entry, and in the name of each entry
\* whose metadata line holds a comma; a synthesized name is synthesized again
\* from the index of the metadata line in the rendered text.
C10_RoundTripExtractedNames ==
    p_pc = "reparsed" =>
        /\ Len(p_reparsed) = Len(p_channels)
        /\ \A i \in DOMAIN p_channels :
              /\ p_reparsed[i].url = p_channels[i].url
              /\ entry_group(p_reparsed[i]) = entry_group(p_channels[i])
              /\ entry_logo(p_reparsed[i]) = entry_logo(p_channels[i])
              /\ ~synthesized(p_channels[i]) =>
                    p_reparsed[i].name = p_channels[i].name
              /\ synthesized(p_channels[i]) => synthesized(p_reparsed[i])

\* a round trip of two entries, one with an extracted and one with a
\* synthesized name
C10_Witness ==
    /\ p_pc = "reparsed"
    /\ Len(p_channels) = 2
    /\ \E i, j \in DOMAIN p_channels :
          /\ ~synthesized(p_channels[i])
          /\ p_channels[i].name # <<>>
          /\ synthesized(p_channels[j])
          /\ p_reparsed[j].name # p_channels[j].name

-----------------------------------------------------------------------------
(* Properties of the classifiers (SpecClassify).                           *)

\* the categories with keywords, in declaration order, per domain
LiveTable ==
    << [category |-> "cctv",          keywords |-> cctv_keywords],
       [category |-> "satellite",     keywords |-> satellite_keywords],
       [category |-> "local",         keywords |-> local_keywords],
       [category |-> "international", keywords |-> international_keywords] >>

VodTable ==
    << [category |-> "movie",       keywords |-> movie_keywords],
       [category |-> "tv",          keywords |-> tv_keywords],
       [category |-> "variety",     keywords |-> variety_keywords],
       [category |-> "anime",       keywords |-> anime_keywords],
       [category |-> "documentary", keywords |-> documentary_keywords] >>

ClassifiedTable ==
    IF c_domain = "live" THEN LiveTable ELSE VodTable

\* a keyword of the k-th category occurs in the lower-cased input
Hit(k) ==
    \E n \in DOMAIN ClassifiedTable[k].keywords :
        \/ contains(lower(c_name), ClassifiedTable[k].keywords[n])
        \/ contains(lower(c_group), ClassifiedTable[k].keywords[n])

\* C8: the result is the first category, in declaration order, one of whose
\* keywords occurs in the lower-cased input; it is 'other' exactly when no
\* keyword of any category occurs; it is a member of the domain's category set.
C8_FirstMatchWins ==
    c_pc = "classified" =>
        /\ c_category \in Range(IF c_domain = "live" THEN LiveCategories ELSE VodCategories)
        /\ \A k \in DOMAIN ClassifiedTable :
              (c_category = ClassifiedTable[k].category)
                  <=> (Hit(k) /\ \A j \in 1..(k - 1) : ~Hit(j))
        /\ (c_category = "other") <=> (\A k \in DOMAIN ClassifiedTable : ~Hit(k))

\* a live name holding keywords of two categories, in upper case, assigned
\* the earlier one
C8_Witness ==
    /\ c_pc = "classified"
    /\ c_domain = "live"
    /\ Hit(1) /\ Hit(2)
    /\ ~contains(c_name, <<"c", "c", "t", "v">>)
    /\ c_category = "cctv"


\* the kind of the line of 1-based index k of the parsed text, as the loop
\* tells it: the metadata test comes first, on the stripped line
IsMetadataLine(k) ==
    startswith(strip(p_lines[k]), EXTINF)

IsUriLine(k) ==
    ~IsMetadataLine(k) /\ is_uri_line(strip(p_lines[k]))

\* the metadata line pending when line u is read: the nearest metadata line
\* before u with neither a metadata line nor a URI line between the two
PendingFor(u) ==
    { m \in 1..(u - 1) :
        /\ IsMetadataLine(m)
        /\ \A k \in (m + 1)..(u - 1) : ~IsMetadataLine(k) /\ ~IsUriLine(k) }

\* the URI lines read while a metadata line is pending
Emitting ==
    { u \in DOMAIN p_lines : IsUriLine(u) /\ PendingFor(u) # {} }

\* C14: the parser emits one entry per URI line read while a metadata line
\* is pending, in the order of the text, made of that URI and of the nearest
\* metadata line before it; a URI line with nothing pending, a metadata line
\* overtaken by another one and a metadata line already used give no entry.
C14_OneEntryPerPairedUri ==
    Parsed =>
        /\ Len(p_channels) = Cardinality(Emitting)
        /\ \A u \in Emitting :
              LET n == Cardinality({ v \in Emitting : v <= u })
                  m == CHOOSE m \in PendingFor(u) : TRUE
              IN  /\ p_channels[n].url = strip(p_lines[u])
                  /\ p_channels[n].raw_extinf = strip(p_lines[m])

\* two different metadata lines, then two URI lines: one entry, of the
\* second metadata line and the first URI line
C14_Witness ==
    /\ p_pc = "parsed"
    /\ Len(p_lines) = 4
    /\ IsMetadataLine(1) /\ IsMetadataLine(2) /\ p_lines[1] # p_lines[2]
    /\ IsUriLine(3) /\ IsUriLine(4)
    /\ Len(p_channels) = 1
    /\ p_channels[1].raw_extinf = strip(p_lines[2])

-----------------------------------------------------------------------------
(* Properties of the reachability probe (SpecProbe).                       *)

Probed ==
    q_pc = "done"

\* a platform pattern stands in the host of the url
HostMatchesPlatform(url) ==
    \E pattern \in {YoutubeCom, YoutuBe, TwitchTv} : contains(url_netloc(url), pattern)

\* the call returned reachable without a request to the network
ShortCircuited ==
    /\ q_result[1].valid
    /\ q_result[1].requests = <<>>

\* C12: is_url_accessible of the class answers reachable without a request
\* to the network when a platform pattern matches the host of the url, and
\* only then.
C12_ShortCircuitIffHostMatches ==
    (Probed /\ q_rev = "v1") =>
        (ShortCircuited <=> HostMatchesPlatform(q_url))

\* the HEAD request was rejected by the server (405 Method Not Allowed) or
\* failed in transport
HeadRejectedOrFailed ==
    /\ Len(q_result[1].requests) >= 1
    /\ \/ q_head.raised # "none"
       \/ q_head.status_code = 405

\* the HEAD request was answered with a success or a redirect
HeadAccepted ==
    /\ Len(q_result[1].requests) >= 1
    /\ q_head.raised = "none"
    /\ q_head.status_code \in AcceptedStatus

\* C15: when the HEAD request is rejected by the server or fails in
\* transport, one GET request follows and its answer decides the result;
\* when the HEAD request is answered with a success or a redirect, no GET
\* request is sent.
C15_GetFollowsFailedHead ==
    Probed =>
        /\ HeadRejectedOrFailed =>
              /\ q_result[1].requests = <<"HEAD", "GET">>
              /\ q_result[1].valid => q_get.raised = "none" /\ q_get.status_code \in AcceptedStatus
              /\ (q_get.raised = "none" /\ q_get.status_code = 200) => q_result[1].valid
        /\ HeadAccepted => q_result[1].requests = <<"HEAD">>
=============================================================================
